---- MODULE Spec2Model ----
(***************************************************************************)
(* todo-rs: the task entity (src/task.rs), its recurrence arithmetic, the  *)
(* task collection owned by App and the all-tasks page that drives it      *)
(* (src/ui/all_tasks.rs, src/ui/new_task.rs).                              *)
(*                                                                         *)
(* A calendar date is the number of days since 0000-12-31 of the          *)
(* proleptic Gregorian calendar (chrono's num_days_from_ce: 0001-01-01 is  *)
(* day 1).  A DateTime<Local> is a calendar date and a time of day in      *)
(* seconds; the local time zone is taken to have no clock changes, so that *)
(* every local date and time exists exactly once.  An Option<T> is the     *)
(* empty set (None) or a singleton (Some).                                 *)
(***************************************************************************)
EXTENDS Integers, Sequences, FiniteSets, TLC

VARIABLES
    task,         \* the task entity under operation
    before,       \* that task before its last operation
    spawned,      \* what the last operation on it returned (Option<Task>)
    op,           \* the name of that operation
    tasks,        \* App.tasks, the collection (index i of the code is tasks[i + 1])
    next_id,      \* the identifier App assigns next
    current_idx,  \* AllTasksPage.current_idx (Option<usize>)
    show_hidden,  \* AllTasksPage.show_hidden
    last,         \* the last key handler run: the id it acted on, the selection on entry
    issued,       \* the identifiers add_task has returned, oldest first
    view,         \* what groups() returned last (Option<Vec<Vec<Task>>>)
    form,         \* NewTaskPage.task_form: the date and repeats texts
    error,        \* NewTaskPage.error (Option<String>)
    got,          \* what get_id returned last (Option<usize>)
    panicked      \* the program has aborted on a panic

taskVars == <<task, before, spawned, op, got>>
pageVars == <<tasks, next_id, current_idx, show_hidden, last, issued, view>>
formVars == <<form, error>>
vars == <<task, before, spawned, op, got, tasks, next_id, current_idx, show_hidden, last,
          issued, view, form, error, panicked>>

(***************************************************************************)
(* Bounds of the model.                                                    *)
(***************************************************************************)
FirstYear == 2024
NumYears == 1
MaxTasks == 3
MaxIssued == 4
MaxListed == 4

None == {}
Some(x) == {x}
Unwrap(o) == CHOOSE x \in o : TRUE

(***************************************************************************)
(* chrono's calendar.                                                      *)
(***************************************************************************)
IsLeap(y) == (y % 4 = 0 /\ y % 100 # 0) \/ y % 400 = 0

ndays_in_month(y, m) ==
    IF m = 2 THEN (IF IsLeap(y) THEN 29 ELSE 28)
    ELSE IF m \in {4, 6, 9, 11} THEN 30 ELSE 31

DaysBeforeYear(y) ==
    365 * (y - 1) + ((y - 1) \div 4) - ((y - 1) \div 100) + ((y - 1) \div 400)

RECURSIVE DaysBeforeMonth(_, _)
DaysBeforeMonth(y, m) ==
    IF m = 1 THEN 0 ELSE DaysBeforeMonth(y, m - 1) + ndays_in_month(y, m - 1)

from_ymd(y, m, d) == DaysBeforeYear(y) + DaysBeforeMonth(y, m) + d

YearSpan == (FirstYear - 1)..(FirstYear + NumYears + 2)

year(date) ==
    CHOOSE y \in YearSpan : DaysBeforeYear(y) < date /\ date <= DaysBeforeYear(y + 1)

month(date) ==
    LET y == year(date)
        o == date - DaysBeforeYear(y)
    IN  CHOOSE m \in 1..12 :
            DaysBeforeMonth(y, m) < o /\ o <= DaysBeforeMonth(y, m) + ndays_in_month(y, m)

day(date) == date - DaysBeforeYear(year(date)) - DaysBeforeMonth(year(date), month(date))

DateTime(date, time) == [date |-> date, time |-> time]

\* DateTime::date_naive: the calendar date, without the time of day.
date_naive(dt) == dt.date

\* chrono::Weekday of a DateTime, as num_days_from_monday: 0 = Mon .. 6 = Sun.
weekday(dt) == (dt.date - 1) % 7

\* DateTime::checked_add_days: None only beyond chrono's last date (year
\* 262142), which no date of the model comes near.
checked_add_days(dt, n) == Some([dt EXCEPT !.date = @ + n])

\* DateTime::checked_add_months: the day of the month is kept, and is the last
\* day of the resulting month when that month is shorter.
checked_add_months(dt, n) ==
    LET total == year(dt.date) * 12 + (month(dt.date) - 1) + n
        y == total \div 12
        m == (total % 12) + 1
        dmax == ndays_in_month(y, m)
        d == IF day(dt.date) > dmax THEN dmax ELSE day(dt.date)
    IN  Some([dt EXCEPT !.date = from_ymd(y, m, d)])

(***************************************************************************)
(* Repeat and DayOfWeek.                                                   *)
(***************************************************************************)
DayNames == <<"Monday", "Tuesday", "Wednesday", "Thursday", "Friday", "Saturday", "Sunday">>
DayOfWeek == {DayNames[i] : i \in 1..7}

from_chrono(w) == DayNames[w + 1]

Never == [kind |-> "Never", days |-> {}]
Daily == [kind |-> "Daily", days |-> {}]
Weekly == [kind |-> "Weekly", days |-> {}]
Monthly == [kind |-> "Monthly", days |-> {}]
Yearly == [kind |-> "Yearly", days |-> {}]
DaysOfWeek(days) == [kind |-> "DaysOfWeek", days |-> days]

Repeat == {Never, Daily, Weekly, Monthly, Yearly} \cup {DaysOfWeek(s) : s \in SUBSET DayOfWeek}

(***************************************************************************)
(* Task (src/task.rs).                                                     *)
(***************************************************************************)
Task(id, name, date, repeats, description, complete) ==
    [id |-> id, name |-> name, date |-> date, repeats |-> repeats,
     description |-> description, complete |-> complete]

set_date(self, date) == [self EXCEPT !.date = date]

\* An operation on a task gives the task as it leaves it and what it returns.
set_incomplete(self) == [self |-> [self EXCEPT !.complete = FALSE], ret |-> None]

\* The loop of set_complete over i in 1..=7, from i on.
RECURSIVE ScanDays(_, _, _)
ScanDays(date, days, i) ==
    IF i > 7 THEN None
    ELSE LET d == Unwrap(checked_add_days(date, i))
         IN  IF from_chrono(weekday(d)) \in days
             THEN checked_add_days(date, i)
             ELSE ScanDays(date, days, i + 1)

\* next_date with the weekday scan widened to the anchor's own day.
next_date_FromAnchor(date, repeats) ==
    CASE repeats.kind = "DaysOfWeek" -> ScanDays(date, repeats.days, 0)
      [] repeats.kind = "Never" -> None
      [] repeats.kind = "Daily" -> checked_add_days(date, 1)
      [] repeats.kind = "Weekly" -> checked_add_days(date, 7)
      [] repeats.kind = "Monthly" -> checked_add_months(date, 1)
      [] repeats.kind = "Yearly" -> checked_add_months(date, 12)

\* next_date with Monthly and Yearly as a fixed number of days.
next_date_FixedDays(date, repeats) ==
    CASE repeats.kind = "DaysOfWeek" -> ScanDays(date, repeats.days, 1)
      [] repeats.kind = "Never" -> None
      [] repeats.kind = "Daily" -> checked_add_days(date, 1)
      [] repeats.kind = "Weekly" -> checked_add_days(date, 7)
      [] repeats.kind = "Monthly" -> checked_add_days(date, 30)
      [] repeats.kind = "Yearly" -> checked_add_days(date, 365)

\* next_date with Never treated as Daily.
next_date_NeverDaily(date, repeats) ==
    CASE repeats.kind = "DaysOfWeek" -> ScanDays(date, repeats.days, 1)
      [] repeats.kind = "Never" -> checked_add_days(date, 1)
      [] repeats.kind = "Daily" -> checked_add_days(date, 1)
      [] repeats.kind = "Weekly" -> checked_add_days(date, 7)
      [] repeats.kind = "Monthly" -> checked_add_months(date, 1)
      [] repeats.kind = "Yearly" -> checked_add_months(date, 12)

\* next_date with Daily and Weekly taken for each other.
next_date_DailyWeeklySwapped(date, repeats) ==
    CASE repeats.kind = "DaysOfWeek" -> ScanDays(date, repeats.days, 1)
      [] repeats.kind = "Never" -> None
      [] repeats.kind = "Daily" -> checked_add_days(date, 7)
      [] repeats.kind = "Weekly" -> checked_add_days(date, 1)
      [] repeats.kind = "Monthly" -> checked_add_months(date, 1)
      [] repeats.kind = "Yearly" -> checked_add_months(date, 12)

\* The next occurrence of set_complete (the match of lines 64-82).
next_date(date, repeats) ==
    CASE repeats.kind = "DaysOfWeek" -> ScanDays(date, repeats.days, 1)
      [] repeats.kind = "Never" -> None
      [] repeats.kind = "Daily" -> checked_add_days(date, 1)
      [] repeats.kind = "Weekly" -> checked_add_days(date, 7)
      [] repeats.kind = "Monthly" -> checked_add_months(date, 1)
      [] repeats.kind = "Yearly" -> checked_add_months(date, 12)

\* set_complete that copies the task before marking it complete.
set_complete_CopyFirst(self) ==
    LET done == [self EXCEPT !.complete = TRUE]
        date == next_date(self.date, self.repeats)
    IN  IF date # None
        THEN [self |-> done, ret |-> Some(set_date(done, Unwrap(date)))]
        ELSE [self |-> done, ret |-> None]

\* set_complete that moves the task itself to the next occurrence.
set_complete_Reschedule(self) ==
    LET date == next_date(self.date, self.repeats)
    IN  IF date # None
        THEN [self |-> set_date([self EXCEPT !.complete = TRUE], Unwrap(date)),
              ret |-> Some(set_date([self EXCEPT !.complete = FALSE], Unwrap(date)))]
        ELSE [self |-> [self EXCEPT !.complete = TRUE], ret |-> None]

set_complete(self) ==
    LET done == [self EXCEPT !.complete = TRUE]
        date == next_date(done.date, done.repeats)
    IN  IF date # None
        THEN [self |-> done,
              ret |-> Some(set_incomplete(set_date(done, Unwrap(date))).self)]
        ELSE [self |-> done, ret |-> None]

\* get_id that answers 0 for a task without an id.
get_id_Sentinel(self) ==
    IF self.id # None THEN [ret |-> self.id, panic |-> FALSE]
    ELSE [ret |-> Some(0), panic |-> FALSE]

\* get_id gives the id, or panics.
get_id(self) ==
    IF self.id # None THEN [ret |-> self.id, panic |-> FALSE]
    ELSE [ret |-> None, panic |-> TRUE]

\* toggle_complete that completes whatever the flag is.
toggle_complete_Always(self) == set_complete(self)

toggle_complete(self) ==
    IF self.complete THEN set_incomplete(self) ELSE set_complete(self)

(***************************************************************************)
(* The task entity on its own: a task built by a front end, then completed,*)
(* un-completed and toggled.                                               *)
(***************************************************************************)
AnchorDates ==
    {DateTime(d, 12 * 3600) :
        d \in from_ymd(FirstYear, 1, 1)..from_ymd(FirstYear + NumYears - 1, 12, 31)}

\* TaskForm::new and NewTaskPage::new: empty texts, no error.
FormInitial ==
    /\ form = [date |-> <<>>, repeats |-> ""]
    /\ error = None

PageInitial ==
    /\ tasks = <<>>
    /\ next_id = 1
    /\ current_idx = None
    /\ show_hidden = FALSE
    /\ last = [op |-> "new", id |-> None, sel |-> None]
    /\ issued = <<>>
    /\ view = None

TaskInit ==
    /\ task \in {Task(id, "a", date, repeats, Some("d"), FALSE) :
                    id \in {None, Some(1)}, date \in AnchorDates, repeats \in Repeat}
    /\ before = task
    /\ spawned = None
    /\ op = "new"
    /\ got = None
    /\ panicked = FALSE
    /\ PageInitial
    /\ FormInitial

Apply(name, r) ==
    /\ ~panicked
    /\ before' = task
    /\ task' = r.self
    /\ spawned' = r.ret
    /\ op' = name
    /\ got' = None
    /\ UNCHANGED <<pageVars, formVars, panicked>>

Complete == Apply("set_complete", set_complete(task))

Incomplete == Apply("set_incomplete", set_incomplete(task))

Toggle == Apply("toggle_complete", toggle_complete(task))

GetId ==
    /\ ~panicked
    /\ before' = task
    /\ task' = task
    /\ spawned' = None
    /\ op' = "get_id"
    /\ got' = get_id(task).ret
    /\ panicked' = get_id(task).panic
    /\ UNCHANGED <<pageVars, formVars>>

TaskNext == Complete \/ Incomplete \/ Toggle \/ GetId

SpecTask == TaskInit /\ [][TaskNext]_vars

(***************************************************************************)
(* App: the collection manager.                                            *)
(***************************************************************************)
\* add_task that numbers the new task one above the largest id now held.
add_task_AboveLargest(ts, nid, t) ==
    LET held == {Unwrap(ts[i].id) : i \in 1..Len(ts)}
        id == IF held = {} THEN 1 ELSE (CHOOSE m \in held : \A j \in held : j <= m) + 1
    IN  [tasks |-> Append(ts, [t EXCEPT !.id = Some(id)]), next_id |-> nid + 1,
         ret |-> Some(id)]

\* add_task that admits a task that has an id under that id.
add_task_KeepId(ts, nid, t) ==
    IF t.id # None
    THEN [tasks |-> Append(ts, t), next_id |-> nid, ret |-> t.id]
    ELSE [tasks |-> Append(ts, [t EXCEPT !.id = Some(nid)]), next_id |-> nid + 1,
          ret |-> Some(nid)]

add_task(ts, nid, t) ==
    [tasks |-> Append(ts, [t EXCEPT !.id = Some(nid)]), next_id |-> nid + 1,
     ret |-> Some(nid)]

get_task(ts, id) ==
    LET found == {i \in 1..Len(ts) : ts[i].id = Some(id)}
    IN  IF found = {} THEN None ELSE Some(ts[CHOOSE i \in found : TRUE])

\* delete_task that fills the hole with the last task.
delete_task_SwapRemove(ts, nid, id) ==
    LET found == {i \in 1..Len(ts) : ts[i].id = Some(id)}
    IN  IF found = {} THEN [tasks |-> ts, next_id |-> nid, ret |-> None]
        ELSE LET k == CHOOSE i \in found : TRUE
                 moved == [ts EXCEPT ![k] = ts[Len(ts)]]
             IN  [tasks |-> SubSeq(moved, 1, Len(ts) - 1), next_id |-> nid, ret |-> None]

delete_task(ts, nid, id) ==
    [tasks |-> SelectSeq(ts, LAMBDA t : t.id # Some(id)), next_id |-> nid, ret |-> None]

\* toggle_complete_task that drops the successor.
toggle_complete_task_NoAdmit(ts, nid, id) ==
    LET found == {i \in 1..Len(ts) : ts[i].id = Some(id)}
    IN  IF found = {} THEN [tasks |-> ts, next_id |-> nid, ret |-> None]
        ELSE LET k == CHOOSE i \in found : TRUE
             IN  [tasks |-> [ts EXCEPT ![k] = toggle_complete(ts[k]).self],
                  next_id |-> nid, ret |-> None]

toggle_complete_task(ts, nid, id) ==
    LET found == {i \in 1..Len(ts) : ts[i].id = Some(id)}
    IN  IF found = {} THEN [tasks |-> ts, next_id |-> nid, ret |-> None]
        ELSE LET k == CHOOSE i \in found : TRUE
                 r == toggle_complete(ts[k])
                 ts1 == [ts EXCEPT ![k] = r.self]
             IN  IF r.ret # None
                 THEN add_task(ts1, nid, Unwrap(r.ret))
                 ELSE [tasks |-> ts1, next_id |-> nid, ret |-> None]

(***************************************************************************)
(* AllTasksPage (src/ui/all_tasks.rs).                                     *)
(***************************************************************************)
get_current_task_id(cur, ts) ==
    IF cur = None THEN None ELSE Some(Unwrap(ts[Unwrap(cur) + 1].id))

\* for i in from..len: the first i whose task is incomplete.
RECURSIVE FirstIncomplete(_, _)
FirstIncomplete(ts, i) ==
    IF i >= Len(ts) THEN None
    ELSE IF ~ts[i + 1].complete THEN Some(i)
    ELSE FirstIncomplete(ts, i + 1)

\* for i in (0..below).rev(): the first i whose task is incomplete.
RECURSIVE LastIncomplete(_, _)
LastIncomplete(ts, below) ==
    IF below <= 0 THEN None
    ELSE IF ~ts[below].complete THEN Some(below - 1)
    ELSE LastIncomplete(ts, below - 1)

\* move_closest without the backward loop.
move_closest_ForwardOnly(cur, ts) ==
    IF cur = None /\ Len(ts) > 0 THEN Some(0)
    ELSE IF cur = None THEN None
    ELSE FirstIncomplete(ts, Unwrap(cur))

\* move_closest that stays where it was when no task is incomplete.
move_closest_Stay(cur, ts) ==
    IF cur = None /\ Len(ts) > 0 THEN Some(0)
    ELSE IF cur = None THEN None
    ELSE LET fwd == FirstIncomplete(ts, Unwrap(cur))
             bwd == LastIncomplete(ts, Unwrap(cur))
         IN  IF fwd # None THEN fwd
             ELSE IF bwd # None THEN bwd
             ELSE cur

\* move_closest with the backward loop first.
move_closest_BackwardFirst(cur, ts) ==
    IF cur = None /\ Len(ts) > 0 THEN Some(0)
    ELSE IF cur = None THEN None
    ELSE LET fwd == FirstIncomplete(ts, Unwrap(cur))
             bwd == LastIncomplete(ts, Unwrap(cur))
         IN  IF bwd # None THEN bwd
             ELSE IF fwd # None THEN fwd
             ELSE None

move_closest(cur, ts) ==
    IF cur = None /\ Len(ts) > 0 THEN Some(0)
    ELSE IF cur = None THEN None
    ELSE LET fwd == FirstIncomplete(ts, Unwrap(cur))
             bwd == LastIncomplete(ts, Unwrap(cur))
         IN  IF fwd # None THEN fwd
             ELSE IF bwd # None THEN bwd
             ELSE None

next(cur, hidden, ts) ==
    IF cur = None /\ Len(ts) > 0 THEN Some(0)
    ELSE IF cur = None THEN None
    ELSE IF hidden /\ Unwrap(cur) + 1 < Len(ts) THEN Some(Unwrap(cur) + 1)
    ELSE IF hidden THEN cur
    ELSE LET fwd == FirstIncomplete(ts, Unwrap(cur) + 1)
         IN  IF fwd # None THEN fwd ELSE cur

\* prev that steps back modulo the length whatever the index.
prev_Wrap(cur, hidden, ts) ==
    IF cur = None /\ Len(ts) > 0 THEN Some(Len(ts) - 1)
    ELSE IF cur = None THEN None
    ELSE IF hidden THEN Some((Unwrap(cur) + Len(ts) - 1) % Len(ts))
    ELSE LET bwd == LastIncomplete(ts, Unwrap(cur))
         IN  IF bwd # None THEN bwd ELSE cur

prev(cur, hidden, ts) ==
    IF cur = None /\ Len(ts) > 0 THEN Some(Len(ts) - 1)
    ELSE IF cur = None THEN None
    ELSE IF hidden /\ Unwrap(cur) > 0 THEN Some((Unwrap(cur) + Len(ts) - 1) % Len(ts))
    ELSE LET bwd == LastIncomplete(ts, Unwrap(cur))
         IN  IF bwd # None THEN bwd ELSE cur

\* groups() that gathers all the tasks of a day, wherever they stand.
groups_ByDay(ts) ==
    LET firsts == {i \in 1..Len(ts) :
                      \A j \in 1..(i - 1) : date_naive(ts[j].date) # date_naive(ts[i].date)}
        Ordered == CHOOSE f \in [1..Cardinality(firsts) -> firsts] :
                       \A a, b \in 1..Cardinality(firsts) : a < b => f[a] < f[b]
    IN  [g \in 1..Cardinality(firsts) |->
            SelectSeq(ts, LAMBDA t : date_naive(t.date) = date_naive(ts[Ordered[g]].date))]

\* itertools' group_by over the tasks from i on: a task joins the last group
\* when its key is that group's, and opens a group otherwise.
RECURSIVE GroupBy(_, _, _)
GroupBy(ts, i, acc) ==
    IF i > Len(ts) THEN acc
    ELSE IF acc # <<>> /\ date_naive(acc[Len(acc)][1].date) = date_naive(ts[i].date)
    THEN GroupBy(ts, i + 1, [acc EXCEPT ![Len(acc)] = Append(@, ts[i])])
    ELSE GroupBy(ts, i + 1, Append(acc, <<ts[i]>>))

groups(ts) == GroupBy(ts, 1, <<>>)

(***************************************************************************)
(* The interactive front end: the new-task form admits tasks, the keys of  *)
(* the all-tasks page move the selection and toggle or delete the selected *)
(* task.                                                                   *)
(***************************************************************************)
FormDates == {DateTime(from_ymd(FirstYear, 1, 31), 0)}

FormRepeats == {Never, Daily, Monthly}

Init ==
    /\ tasks = <<>>
    /\ next_id = 1
    /\ current_idx = None
    /\ show_hidden \in BOOLEAN
    /\ last = [op |-> "new", id |-> None, sel |-> None]
    /\ issued = <<>>
    /\ view = None
    /\ FormInitial
    /\ task = Task(None, "", DateTime(from_ymd(FirstYear, 1, 1), 0), Never, None, FALSE)
    /\ before = task
    /\ spawned = None
    /\ op = "new"
    /\ got = None
    /\ panicked = FALSE

\* What an App operation leaves: the collection, the counter, the ids issued.
Store(r) ==
    /\ Len(r.tasks) <= MaxTasks \/ Len(r.tasks) <= Len(tasks)
    /\ Len(issued) + Cardinality(r.ret) <= MaxIssued
    /\ tasks' = r.tasks
    /\ next_id' = r.next_id
    /\ issued' = IF r.ret = None THEN issued ELSE Append(issued, Unwrap(r.ret))

\* Enter on the new-task form whose date and repeat texts parse: submit, then
\* add_task.
SubmitNewTask ==
    \E date \in FormDates, repeats \in FormRepeats :
        LET t == Task(None, "a", date, repeats, Some("d"), FALSE)
            r == add_task(tasks, next_id, t)
        IN  /\ Store(r)
            /\ last' = [op |-> "add", id |-> r.ret,
                sel |-> current_idx]
            /\ UNCHANGED <<current_idx, show_hidden, view, formVars, panicked, taskVars>>

ToggleSelected ==
    /\ ~panicked
    /\ last' = [op |-> "toggle_selected", id |-> get_current_task_id(current_idx, tasks),
                sel |-> current_idx]
    /\ IF current_idx = None
       THEN UNCHANGED <<tasks, next_id, issued, current_idx>>
       ELSE LET r == toggle_complete_task(tasks, next_id,
                                          Unwrap(get_current_task_id(current_idx, tasks)))
            IN  /\ Store(r)
                /\ current_idx' = IF ~show_hidden THEN move_closest(current_idx, r.tasks)
                                  ELSE current_idx
    /\ UNCHANGED <<show_hidden, view, formVars, panicked, taskVars>>

DeleteSelected ==
    /\ ~panicked
    /\ last' = [op |-> "delete_selected", id |-> get_current_task_id(current_idx, tasks),
                sel |-> current_idx]
    /\ IF current_idx = None
       THEN UNCHANGED <<tasks, next_id, issued, current_idx>>
       ELSE LET r == delete_task(tasks, next_id,
                                 Unwrap(get_current_task_id(current_idx, tasks)))
            IN  /\ Store(r)
                /\ current_idx' = move_closest(current_idx, r.tasks)
    /\ UNCHANGED <<show_hidden, view, formVars, panicked, taskVars>>

Next_ ==
    /\ ~panicked
    /\ last' = [op |-> "next", id |-> None,
                sel |-> current_idx]
    /\ current_idx' = next(current_idx, show_hidden, tasks)
    /\ UNCHANGED <<tasks, next_id, issued, show_hidden, view, formVars, panicked, taskVars>>

Prev ==
    /\ ~panicked
    /\ last' = [op |-> "prev", id |-> None,
                sel |-> current_idx]
    /\ current_idx' = prev(current_idx, show_hidden, tasks)
    /\ UNCHANGED <<tasks, next_id, issued, show_hidden, view, formVars, panicked, taskVars>>

ToggleHidden ==
    /\ ~panicked
    /\ last' = [op |-> "toggle_hidden", id |-> None,
                sel |-> current_idx]
    /\ show_hidden' = ~show_hidden
    /\ current_idx' = IF ~show_hidden' THEN move_closest(current_idx, tasks)
                      ELSE current_idx
    /\ UNCHANGED <<tasks, next_id, issued, view, formVars, panicked, taskVars>>

Next == SubmitNewTask \/ ToggleSelected \/ DeleteSelected \/ Next_ \/ Prev \/ ToggleHidden

Spec == Init /\ [][Next]_vars

(***************************************************************************)
(* The all-tasks page over a collection loaded from the store: tasks that  *)
(* do not recur, complete or not, and the keys that move the selection and *)
(* toggle or delete the selected task.                                     *)
(***************************************************************************)
RECURSIVE Loaded(_)
Loaded(n) ==
    IF n = 0 THEN {<<>>}
    ELSE {Append(ts, Task(Some(n), "a", DateTime(from_ymd(FirstYear, 1, 31), 0), Never,
                          None, complete)) :
             ts \in Loaded(n - 1), complete \in BOOLEAN}

PageInit ==
    /\ tasks \in UNION {Loaded(n) : n \in 0..MaxListed}
    /\ next_id = Len(tasks) + 1
    /\ current_idx = None
    /\ show_hidden \in BOOLEAN
    /\ last = [op |-> "new", id |-> None, sel |-> None]
    /\ issued = <<>>
    /\ view = None
    /\ FormInitial
    /\ task = Task(None, "", DateTime(from_ymd(FirstYear, 1, 1), 0), Never, None, FALSE)
    /\ before = task
    /\ spawned = None
    /\ op = "new"
    /\ got = None
    /\ panicked = FALSE

\* move_closest called on its own.
MoveClosest ==
    /\ ~panicked
    /\ last' = [op |-> "move_closest", id |-> None, sel |-> current_idx]
    /\ current_idx' = move_closest(current_idx, tasks)
    /\ UNCHANGED <<tasks, next_id, issued, show_hidden, view, formVars, panicked, taskVars>>

\* Enter: open_selected_link.  The descriptions of the tasks here are not
\* hyperlinks, so nothing is opened.
OpenSelectedLink ==
    /\ ~panicked
    /\ last' = [op |-> "open_selected_link", id |-> get_current_task_id(current_idx, tasks),
                sel |-> current_idx]
    /\ UNCHANGED <<tasks, next_id, issued, current_idx, show_hidden, view, formVars, panicked,
                   taskVars>>

\* e: get_current_task_id().unwrap(), then the edit page of that task.
EditSelected ==
    /\ ~panicked
    /\ last' = [op |-> "edit", id |-> get_current_task_id(current_idx, tasks),
                sel |-> current_idx]
    /\ panicked' = (get_current_task_id(current_idx, tasks) = None)
    /\ UNCHANGED <<tasks, next_id, issued, current_idx, show_hidden, view, formVars, taskVars>>

PageNext ==
    \/ ToggleSelected \/ DeleteSelected \/ Next_ \/ Prev \/ ToggleHidden
    \/ MoveClosest \/ OpenSelectedLink \/ EditSelected

SpecPage == PageInit /\ [][PageNext]_vars

(***************************************************************************)
(* groups() over a collection as the store may hold it.                    *)
(***************************************************************************)
ListedDates ==
    {DateTime(from_ymd(FirstYear, 1, 1) + d, t) : d \in 0..2, t \in {0, 12 * 3600}}

RECURSIVE Listings(_)
Listings(n) ==
    IF n = 0 THEN {<<>>}
    ELSE {Append(ts, Task(Some(n), "a", date, Never, None, FALSE)) :
             ts \in Listings(n - 1), date \in ListedDates}

GroupsInit ==
    /\ tasks \in UNION {Listings(n) : n \in 0..MaxListed}
    /\ next_id = Len(tasks) + 1
    /\ current_idx = None
    /\ show_hidden = FALSE
    /\ last = [op |-> "new", id |-> None, sel |-> None]
    /\ issued = <<>>
    /\ view = None
    /\ FormInitial
    /\ task = Task(None, "", DateTime(from_ymd(FirstYear, 1, 1), 0), Never, None, FALSE)
    /\ before = task
    /\ spawned = None
    /\ op = "new"
    /\ got = None
    /\ panicked = FALSE

Groups ==
    /\ view' = Some(groups(tasks))
    /\ UNCHANGED <<tasks, next_id, current_idx, show_hidden, last, issued, formVars, panicked,
                   taskVars>>

GroupsNext == Groups

SpecGroups == GroupsInit /\ [][GroupsNext]_vars

(***************************************************************************)
(* The new-task form: texts typed into the date and repeats boxes, and     *)
(* Enter, which submits them.  A date text is the sequence of the numeric  *)
(* fields that "-" separates: <<2024, 1, 31>> is "2024-01-31", <<>> is the *)
(* empty text, <<2024, 1>> is "2024-01".                                   *)
(***************************************************************************)
FormDateTexts ==
    {<<>>, <<FirstYear, 1>>, <<FirstYear, 1, 31>>, <<FirstYear, 2, 30>>, <<FirstYear, 13, 1>>}

FormRepeatTexts == {"", "Never", "Daily", "Monthly", "Mon,Fri", "Sometimes"}

\* NaiveDate::parse_from_str(text, "%Y-%m-%d")
parse_date(text) ==
    IF /\ Len(text) = 3
       /\ text[2] \in 1..12
       /\ text[3] \in 1..ndays_in_month(text[1], text[2])
    THEN Some(from_ymd(text[1], text[2], text[3]))
    ELSE None

\* Repeat::parse_from_str
parse_from_str(text) ==
    CASE text = "Never" -> Some(Never)
      [] text = "Daily" -> Some(Daily)
      [] text = "Weekly" -> Some(Weekly)
      [] text = "Monthly" -> Some(Monthly)
      [] text = "Yearly" -> Some(Yearly)
      [] text = "Mon,Fri" -> Some(DaysOfWeek({"Monday", "Friday"}))
      [] OTHER -> None

\* submit that keeps the date Task::new gave when the date text does not parse.
submit_DefaultDate(self) ==
    LET repeat == parse_from_str(self.repeats)
        date == parse_date(self.date)
        today == from_ymd(FirstYear, 1, 1)
    IN  IF repeat = None THEN [ok |-> FALSE, task |-> None, err |-> "Invalid repeat format"]
        ELSE [ok |-> TRUE,
              task |-> Some(Task(None, "a",
                                 DateTime(IF date = None THEN today ELSE Unwrap(date), 0),
                                 Unwrap(repeat), Some("d"), FALSE)),
              err |-> ""]

submit(self) ==
    LET repeat == parse_from_str(self.repeats)
        date == parse_date(self.date)
    IN  IF repeat = None THEN [ok |-> FALSE, task |-> None, err |-> "Invalid repeat format"]
        ELSE IF date = None THEN [ok |-> FALSE, task |-> None, err |-> "Invalid date format"]
        ELSE [ok |-> TRUE,
              task |-> Some(Task(None, "a", DateTime(Unwrap(date), 0), Unwrap(repeat),
                                 Some("d"), FALSE)),
              err |-> ""]

FormInit ==
    /\ tasks \in UNION {Loaded(n) : n \in 0..MaxTasks - 1}
    /\ next_id = Len(tasks) + 1
    /\ current_idx = None
    /\ show_hidden = FALSE
    /\ last = [op |-> "new", id |-> None, sel |-> None]
    /\ issued = <<>>
    /\ view = None
    /\ FormInitial
    /\ task = Task(None, "", DateTime(from_ymd(FirstYear, 1, 1), 0), Never, None, FALSE)
    /\ before = task
    /\ spawned = None
    /\ op = "new"
    /\ got = None
    /\ panicked = FALSE

\* Keys typed in the date box.
EditDate ==
    /\ \E text \in FormDateTexts : form' = [form EXCEPT !.date = text]
    /\ last' = [op |-> "edit", id |-> None, sel |-> current_idx]
    /\ UNCHANGED <<tasks, next_id, current_idx, show_hidden, issued, view, error, panicked,
                   taskVars>>

\* Keys typed in the repeats box.
EditRepeats ==
    /\ \E text \in FormRepeatTexts : form' = [form EXCEPT !.repeats = text]
    /\ last' = [op |-> "edit", id |-> None, sel |-> current_idx]
    /\ UNCHANGED <<tasks, next_id, current_idx, show_hidden, issued, view, error, panicked,
                   taskVars>>

\* Enter on the form, in normal mode.
Enter ==
    LET s == submit(form)
    IN  /\ IF s.ok
           THEN LET r == add_task(tasks, next_id, Unwrap(s.task))
                IN  /\ Store(r)
                    /\ last' = [op |-> "enter", id |-> r.ret, sel |-> current_idx,
                                page |-> "AllTasks"]
                    /\ UNCHANGED error
           ELSE /\ error' = Some(s.err)
                /\ last' = [op |-> "enter", id |-> None, sel |-> current_idx,
                            page |-> "SamePage"]
                /\ UNCHANGED <<tasks, next_id, issued>>
        /\ UNCHANGED <<current_idx, show_hidden, view, form, panicked, taskVars>>

FormNext == EditDate \/ EditRepeats \/ Enter

SpecForm == FormInit /\ [][FormNext]_vars

(***************************************************************************)
(* The collection manager called by identifier, as a front end may call    *)
(* it: with the id of a task that is there or of one that is not.          *)
(***************************************************************************)
AppIds == 1..(MaxListed + 1)

AppInit ==
    /\ tasks \in UNION {Loaded(n) : n \in 0..MaxListed}
    /\ next_id = Len(tasks) + 1
    /\ current_idx = None
    /\ show_hidden = FALSE
    /\ last = [op |-> "new", id |-> None, sel |-> None]
    /\ issued = <<>>
    /\ view = None
    /\ FormInitial
    /\ task = Task(None, "", DateTime(from_ymd(FirstYear, 1, 1), 0), Never, None, FALSE)
    /\ before = task
    /\ spawned = None
    /\ op = "new"
    /\ got = None
    /\ panicked = FALSE

AppAdd ==
    LET r == add_task(tasks, next_id,
                      Task(None, "a", DateTime(from_ymd(FirstYear, 1, 31), 0), Never,
                           Some("d"), FALSE))
    IN  /\ Store(r)
        /\ last' = [op |-> "add", id |-> r.ret, sel |-> current_idx]
        /\ UNCHANGED <<current_idx, show_hidden, view, formVars, panicked, taskVars>>

AppDelete ==
    \E id \in AppIds :
        /\ Store(delete_task(tasks, next_id, id))
        /\ last' = [op |-> "delete", id |-> Some(id), sel |-> current_idx]
        /\ UNCHANGED <<current_idx, show_hidden, view, formVars, panicked, taskVars>>

AppToggle ==
    \E id \in AppIds :
        /\ Store(toggle_complete_task(tasks, next_id, id))
        /\ last' = [op |-> "toggle", id |-> Some(id), sel |-> current_idx]
        /\ UNCHANGED <<current_idx, show_hidden, view, formVars, panicked, taskVars>>

AppNext == AppAdd \/ AppDelete \/ AppToggle

SpecApp == AppInit /\ [][AppNext]_vars

(***************************************************************************)
(* One recurring task, selected on the all-tasks page with completed tasks *)
(* shown, and toggled again and again: the selection stays on it, and the  *)
(* tasks after it in the collection are the successors it spawned.         *)
(***************************************************************************)
RecurDates ==
    {DateTime(from_ymd(FirstYear, m, ndays_in_month(FirstYear, m)), 12 * 3600) : m \in 1..12}

Recurring == Repeat \ {Never, DaysOfWeek({})}

RecurInit ==
    /\ tasks \in {<<Task(Some(1), "a", date, repeats, Some("d"), FALSE)>> :
                     date \in RecurDates, repeats \in Recurring}
    /\ next_id = 2
    /\ current_idx = Some(0)
    /\ show_hidden = TRUE
    /\ last = [op |-> "next", id |-> None, sel |-> None]
    /\ issued = <<>>
    /\ view = None
    /\ FormInitial
    /\ task = Task(None, "", DateTime(from_ymd(FirstYear, 1, 1), 0), Never, None, FALSE)
    /\ before = task
    /\ spawned = None
    /\ op = "new"
    /\ got = None
    /\ panicked = FALSE

RecurNext == ToggleSelected

SpecRecur == RecurInit /\ [][RecurNext]_vars

(***************************************************************************)
(* Properties of the task entity.                                          *)
(***************************************************************************)
\* The last operation completed a task that was incomplete.
CompletedIncomplete ==
    /\ op \in {"set_complete", "toggle_complete"}
    /\ ~before.complete

\* The last operation was incomplete(), directly or through toggle.
Uncompleted ==
    \/ op = "set_incomplete"
    \/ op = "toggle_complete" /\ before.complete

Later(a, b) == a.date > b.date \/ (a.date = b.date /\ a.time > b.time)

SuccessorOfAnchor ==
    /\ spawned # None
    /\ Later(Unwrap(spawned).date, before.date)
    /\ Unwrap(spawned).repeats = before.repeats
    /\ Unwrap(spawned).name = before.name
    /\ ~Unwrap(spawned).complete

\* C1, as stated: completing an incomplete task of any recurrence but Never,
\* every weekday set included, gives an incomplete successor of the same name
\* and recurrence, dated strictly after the anchor.
C1_AnyRecurrenceSpawns ==
    (CompletedIncomplete /\ before.repeats # Never) => SuccessorOfAnchor

\* C1, amended: completing an incomplete task whose recurrence is neither
\* Never nor the empty weekday set gives an incomplete successor of the same
\* name and recurrence, dated strictly after the anchor.
C1_NonEmptyRecurrenceSpawns ==
    (CompletedIncomplete /\ before.repeats # Never /\ before.repeats # DaysOfWeek({}))
        => SuccessorOfAnchor

C1_Witness ==
    /\ CompletedIncomplete
    /\ op = "toggle_complete"
    /\ before.repeats = DaysOfWeek({"Monday", "Friday"})
    /\ SuccessorOfAnchor

\* The month n months after the anchor's, and whether it has the anchor's day.
TargetMonth(dt, n) ==
    LET total == year(dt.date) * 12 + (month(dt.date) - 1) + n
    IN  [y |-> total \div 12, m |-> (total % 12) + 1]

MonthsOf(repeats) == IF repeats = Yearly THEN 12 ELSE 1

LacksAnchorDay ==
    LET t == TargetMonth(before.date, MonthsOf(before.repeats))
    IN  /\ before.repeats \in {Monthly, Yearly}
        /\ day(before.date.date) > ndays_in_month(t.y, t.m)

\* C2, as stated: Monthly or Yearly from a day the target month lacks gives
\* no successor.
C2_MissingDayNoSuccessor ==
    (CompletedIncomplete /\ LacksAnchorDay) => spawned = None

\* C2, amended: Monthly or Yearly from a day the target month lacks gives a
\* successor on the last day of the target month, at the anchor's time of day.
C2_MissingDayClamped ==
    (CompletedIncomplete /\ LacksAnchorDay) =>
        LET t == TargetMonth(before.date, MonthsOf(before.repeats))
        IN  /\ spawned # None
            /\ Unwrap(spawned).date =
                   DateTime(from_ymd(t.y, t.m, ndays_in_month(t.y, t.m)), before.date.time)

C2_Witness ==
    /\ CompletedIncomplete
    /\ before.repeats = Yearly
    /\ LacksAnchorDay
    /\ spawned # None

\* The offsets 1..7 from the anchor whose weekday is in the set.
MatchingOffsets ==
    {i \in 1..7 : DayNames[((before.date.date + i - 1) % 7) + 1] \in before.repeats.days}

Least(S) == CHOOSE i \in S : \A j \in S : i <= j

\* C3: for a weekday set the successor is dated on the earliest of the days
\* anchor+1 .. anchor+7 whose weekday is in the set; the set of the anchor's
\* own weekday alone gives anchor+7, and the empty set gives no successor.
C3_EarliestMatchingDay ==
    (CompletedIncomplete /\ before.repeats.kind = "DaysOfWeek") =>
        /\ (before.repeats.days = {}) <=> (spawned = None)
        /\ spawned # None =>
               /\ MatchingOffsets # {}
               /\ Unwrap(spawned).date =
                      DateTime(before.date.date + Least(MatchingOffsets), before.date.time)
        /\ before.repeats.days = {DayNames[((before.date.date - 1) % 7) + 1]} =>
               /\ spawned # None
               /\ Unwrap(spawned).date.date = before.date.date + 7

C3_Witness ==
    /\ CompletedIncomplete
    /\ before.repeats = DaysOfWeek({DayNames[((before.date.date - 1) % 7) + 1]})
    /\ spawned # None
    /\ Unwrap(spawned).date.date = before.date.date + 7

\* C7: completing a task that never recurs gives no successor, and
\* incomplete() gives no successor whatever the recurrence.
C7_NoSuccessor ==
    /\ (op \in {"set_complete", "toggle_complete"} /\ before.repeats = Never)
           => spawned = None
    /\ Uncompleted => spawned = None

C7_Witness ==
    /\ CompletedIncomplete
    /\ before.repeats = Never
    /\ task.complete
    /\ spawned = None

\* C8: a toggle right after a toggle from Incomplete gives back the task as it
\* was before the first, Incomplete again, and spawns no successor.
C8_ToggleTwice ==
    [][(op = "toggle_complete" /\ ~before.complete /\ op' = "toggle_complete")
          => (task' = before /\ spawned' = None)]_vars

C8_Witness ==
    /\ op = "toggle_complete"
    /\ before.complete
    /\ before.repeats = Daily
    /\ task = [before EXCEPT !.complete = FALSE]
    /\ spawned = None

\* C9: completing a task changes its complete flag and nothing else of it;
\* the next occurrence is another task, with the new date.
C9_OnlyCompleteChanges ==
    CompletedIncomplete =>
        /\ task = [before EXCEPT !.complete = TRUE]
        /\ spawned # None => Unwrap(spawned).date # task.date

C9_Witness ==
    /\ CompletedIncomplete
    /\ before.repeats = Monthly
    /\ spawned # None
    /\ task.date = before.date
    /\ Unwrap(spawned).date # before.date

\* C16: a task that add has not admitted has no id; so the successor that
\* completing a task returns has none.
C16_SuccessorHasNoId ==
    spawned # None => Unwrap(spawned).id = None

\* C19: get_id on a task without an id panics and returns nothing; on a task
\* with an id it returns that id and leaves the task as it was.
C19_GetId ==
    /\ op = "get_id" =>
           /\ before.id = None => (panicked /\ got = None)
           /\ before.id # None => (~panicked /\ got = before.id /\ task = before)
    /\ panicked => (op = "get_id" /\ before.id = None)

C19_Witness ==
    /\ op = "get_id"
    /\ before.id = None
    /\ before.complete
    /\ panicked

\* The day after a calendar date, by year, month and day.
CalendarNext(d) ==
    LET y == year(d)
        m == month(d)
        dd == day(d)
    IN  IF dd < ndays_in_month(y, m) THEN from_ymd(y, m, dd + 1)
        ELSE IF m < 12 THEN from_ymd(y, m + 1, 1)
        ELSE from_ymd(y + 1, 1, 1)

RECURSIVE CalendarAdd(_, _)
CalendarAdd(d, n) == IF n = 0 THEN d ELSE CalendarAdd(CalendarNext(d), n - 1)

\* C20: the successor of a Daily task is dated on the calendar day after the
\* anchor and that of a Weekly task seven calendar days after it, at the
\* anchor's time of day, month and year ends included.
C20_DailyWeekly ==
    /\ (CompletedIncomplete /\ before.repeats = Daily) =>
           /\ spawned # None
           /\ Unwrap(spawned).date = DateTime(before.date.date + 1, before.date.time)
           /\ Unwrap(spawned).date.date = CalendarNext(before.date.date)
    /\ (CompletedIncomplete /\ before.repeats = Weekly) =>
           /\ spawned # None
           /\ Unwrap(spawned).date = DateTime(before.date.date + 7, before.date.time)
           /\ Unwrap(spawned).date.date = CalendarAdd(before.date.date, 7)

\* A Daily task of 31 December: its successor is dated 1 January.
C20_Witness ==
    /\ CompletedIncomplete
    /\ before.repeats = Daily
    /\ month(before.date.date) = 12
    /\ day(before.date.date) = 31
    /\ spawned # None
    /\ Unwrap(spawned).date.date = from_ymd(year(before.date.date) + 1, 1, 1)

(***************************************************************************)
(* Properties of the collection.                                           *)
(***************************************************************************)
\* C4: every task of the collection has an id, and no two have the same id.
C4_UniqueIds ==
    /\ \A i \in 1..Len(tasks) : tasks[i].id # None
    /\ \A i, j \in 1..Len(tasks) : i # j => tasks[i].id # tasks[j].id

\* A toggle has just admitted the successor of a task the collection holds.
C4_Witness ==
    /\ last.op = "toggle_selected"
    /\ Len(tasks) >= 2
    /\ \E i \in 1..(Len(tasks) - 1) :
           /\ tasks[i].complete
           /\ tasks[i].repeats = Daily
           /\ tasks[Len(tasks)].date = DateTime(tasks[i].date.date + 1, tasks[i].date.time)
           /\ tasks[Len(tasks)].id # tasks[i].id
           /\ tasks[Len(tasks)].id = Some(issued[Len(issued)])

\* C5: the identifiers add returns are strictly increasing, whatever was
\* deleted in between.
C5_IdsIncrease ==
    \A i, j \in 1..Len(issued) : i < j => issued[i] < issued[j]

\* add, add, delete the first, add: the ids held are 2 and 3.
C5_Witness ==
    /\ last.op = "add"
    /\ issued = <<1, 2, 3>>
    /\ Len(tasks) = 2
    /\ tasks[1].id = Some(2)
    /\ tasks[2].id = Some(3)

\* The position of the task with this id.
PositionOf(ts, id) == CHOOSE k \in 1..Len(ts) : ts[k].id = id

\* Toggling this task spawns a successor.
Spawns(t) == ~t.complete /\ t.repeats # Never /\ t.repeats # DaysOfWeek({})

\* C6: a toggle flips the flag of the task with the id and of no other, and
\* leaves every task where it was; when the task was incomplete and recurs, one
\* task is appended, the incomplete next occurrence under a new id; otherwise
\* the collection has the same length.
C6_ToggleComplete ==
    [][(last'.op = "toggle_selected" /\ last'.id # None) =>
          LET k == PositionOf(tasks, last'.id)
          IN  /\ \A i \in 1..Len(tasks) :
                     tasks'[i] = IF i = k THEN [tasks[i] EXCEPT !.complete = ~@]
                                 ELSE tasks[i]
              /\ Spawns(tasks[k]) =>
                     /\ Len(tasks') = Len(tasks) + 1
                     /\ tasks'[Len(tasks')].name = tasks[k].name
                     /\ tasks'[Len(tasks')].repeats = tasks[k].repeats
                     /\ Later(tasks'[Len(tasks')].date, tasks[k].date)
                     /\ ~tasks'[Len(tasks')].complete
                     /\ \A i \in 1..Len(tasks) : tasks[i].id # tasks'[Len(tasks')].id
              /\ ~Spawns(tasks[k]) => Len(tasks') = Len(tasks)]_vars

\* A toggle has completed the first of two tasks and appended its successor.
C6_Witness ==
    /\ last.op = "toggle_selected"
    /\ Len(tasks) = 3
    /\ last.id = tasks[1].id
    /\ tasks[1].complete
    /\ tasks[1].repeats = Monthly
    /\ tasks[3].repeats = Monthly
    /\ ~tasks[3].complete
    /\ Later(tasks[3].date, tasks[1].date)

RECURSIVE Concat(_)
Concat(gs) == IF gs = <<>> THEN <<>> ELSE Head(gs) \o Concat(Tail(gs))

\* C10: the groups are the maximal runs of tasks of one calendar day, in the
\* order of the collection: joined they give the collection, none is empty,
\* a group holds one day only and the next group another day; the days
\* [A, A, B, A] give three groups.
C10_ConsecutiveRuns ==
    view # None =>
        LET gs == Unwrap(view)
        IN  /\ Concat(gs) = tasks
            /\ \A g \in 1..Len(gs) :
                   /\ gs[g] # <<>>
                   /\ \A i \in 1..Len(gs[g]) :
                          date_naive(gs[g][i].date) = date_naive(gs[g][1].date)
            /\ \A g \in 1..(Len(gs) - 1) :
                   date_naive(gs[g][1].date) # date_naive(gs[g + 1][1].date)

C10_Witness ==
    /\ view # None
    /\ Len(tasks) = 4
    /\ date_naive(tasks[1].date) = date_naive(tasks[2].date)
    /\ tasks[1].date # tasks[2].date
    /\ date_naive(tasks[3].date) # date_naive(tasks[1].date)
    /\ date_naive(tasks[4].date) = date_naive(tasks[1].date)
    /\ Unwrap(view) = <<<<tasks[1], tasks[2]>>, <<tasks[3]>>, <<tasks[4]>>>>

(***************************************************************************)
(* Properties of the selection.                                            *)
(***************************************************************************)
\* The indices of the incomplete tasks, and of the tasks shown.
Incompletes == {i \in 0..(Len(tasks) - 1) : ~tasks[i + 1].complete}

Shown == {i \in 0..(Len(tasks) - 1) : show_hidden \/ ~tasks[i + 1].complete}

\* The last handler ran move_closest from a selected position: toggle_selected
\* and toggle_hidden do with completed tasks hidden, delete_selected always.
MovedClosest ==
    /\ last.sel # None
    /\ \/ last.op \in {"toggle_selected", "toggle_hidden"} /\ ~show_hidden
       \/ last.op = "delete_selected"

\* C11: with completed tasks hidden, move_closest from a position that holds
\* a complete task does not leave the selection there; it selects an
\* incomplete task when there is one, and nothing only when there is none.
C11_LeavesHiddenTask ==
    (/\ MovedClosest
     /\ ~show_hidden
     /\ Unwrap(last.sel) < Len(tasks)
     /\ tasks[Unwrap(last.sel) + 1].complete)
        => /\ current_idx # last.sel
           /\ Incompletes # {} => (current_idx # None /\ Unwrap(current_idx) \in Incompletes)
           /\ current_idx = None => Incompletes = {}

\* [Incomplete, Complete, Incomplete] with index 1 selected, completed tasks
\* just hidden.
C11_Witness ==
    /\ last.op = "toggle_hidden"
    /\ ~show_hidden
    /\ last.sel = Some(1)
    /\ Len(tasks) = 3
    /\ ~tasks[1].complete /\ tasks[2].complete /\ ~tasks[3].complete
    /\ current_idx \in {Some(0), Some(2)}

\* C12: with completed tasks hidden, a selection that next or prev has set or
\* changed is on an incomplete task.
C12_SelectsVisible ==
    (/\ last.op \in {"next", "prev"}
     /\ ~show_hidden
     /\ current_idx # last.sel
     /\ current_idx # None)
        => ~tasks[Unwrap(current_idx) + 1].complete

\* C13: after the selected task was deleted or toggled, a shown task is
\* selected whenever the collection holds a task that is shown.
C13_RecoversSelection ==
    (/\ last.op \in {"delete_selected", "toggle_selected"}
     /\ last.sel # None
     /\ Shown # {})
        => (current_idx # None /\ Unwrap(current_idx) \in Shown)

\* C14: from a selected task next does not go back and prev does not go on,
\* and each leaves the selection where it is when no shown task lies beyond it.
C14_NoWrap ==
    /\ (last.op = "next" /\ last.sel # None) =>
           /\ current_idx # None
           /\ Unwrap(current_idx) >= Unwrap(last.sel)
           /\ (\A i \in Shown : i <= Unwrap(last.sel)) => current_idx = last.sel
    /\ (last.op = "prev" /\ last.sel # None) =>
           /\ current_idx # None
           /\ Unwrap(current_idx) <= Unwrap(last.sel)
           /\ (\A i \in Shown : i >= Unwrap(last.sel)) => current_idx = last.sel

\* prev on the first of several tasks, completed tasks shown.
C14_Witness ==
    /\ last.op = "prev"
    /\ show_hidden
    /\ last.sel = Some(0)
    /\ Len(tasks) >= 2
    /\ current_idx = Some(0)

Distance(i, j) == IF i >= j THEN i - j ELSE j - i

\* C15, as stated: the task move_closest selects is an incomplete task at the
\* least distance from the position it started from.
C15_MinimumDistance ==
    (MovedClosest /\ current_idx # None) =>
        \A j \in Incompletes :
            Distance(Unwrap(current_idx), Unwrap(last.sel)) <= Distance(j, Unwrap(last.sel))

\* C15, amended: move_closest selects the first incomplete task at or after
\* the position it started from; when there is none, the last incomplete task
\* before it; when there is none either, nothing.
C15_ForwardThenBackward ==
    MovedClosest =>
        LET at == Unwrap(last.sel)
            fwd == {j \in Incompletes : j >= at}
            bwd == {j \in Incompletes : j < at}
        IN  current_idx =
                IF fwd # {} THEN Some(CHOOSE j \in fwd : \A k \in fwd : j <= k)
                ELSE IF bwd # {} THEN Some(CHOOSE j \in bwd : \A k \in bwd : j >= k)
                ELSE None

\* From index 1 of [Incomplete, Complete, Complete, Incomplete] the selection
\* goes to index 3, two away, and not to index 0, one away.
C15_Witness ==
    /\ last.op = "toggle_hidden"
    /\ ~show_hidden
    /\ last.sel = Some(1)
    /\ Len(tasks) = 4
    /\ ~tasks[1].complete /\ tasks[2].complete /\ tasks[3].complete /\ ~tasks[4].complete
    /\ current_idx = Some(3)

(***************************************************************************)
(* Properties of the form and of the collection called by identifier.      *)
(***************************************************************************)
\* The text is a calendar date written year, month, day: counting its day
\* into its month stays in that month.
IsDateText(text) ==
    /\ Len(text) = 3
    /\ text[2] \in 1..12
    /\ text[3] >= 1
    /\ month(from_ymd(text[1], text[2], text[3])) = text[2]

RepeatWords == {"Never", "Daily", "Weekly", "Monthly", "Yearly", "Mon,Fri"}

\* C17: Enter on a form whose date text or repeats text does not parse
\* reports an error, leaves the tasks, the id counter and the ids issued as
\* they were, and stays on the form.
C17_ParseFailure ==
    [][(last'.op = "enter" /\ (~IsDateText(form.date) \/ form.repeats \notin RepeatWords))
          => /\ error' # None
             /\ tasks' = tasks
             /\ next_id' = next_id
             /\ issued' = issued
             /\ last'.page = "SamePage"]_vars

C17_Witness ==
    /\ last.op = "enter"
    /\ last.page = "SamePage"
    /\ form.repeats = "Daily"
    /\ form.date = <<FirstYear, 2, 30>>
    /\ error = Some("Invalid date format")
    /\ Len(tasks) >= 2

\* The positions of ts whose task has another id than id.
Others(ts, id) == {i \in 1..Len(ts) : ts[i].id # id}

\* C18: delete(id) leaves the tasks of every other id, in their order and
\* as they were, removes the task of that id, and leaves the id counter; with
\* no task of that id the collection is as it was.
C18_DeleteExactly ==
    [][last'.op = "delete"
          => LET keep == Others(tasks, last'.id)
             IN  /\ Len(tasks') = Cardinality(keep)
                 /\ \A i \in keep : tasks'[Cardinality({j \in keep : j <= i})] = tasks[i]
                 /\ keep = 1..Len(tasks) => tasks' = tasks
                 /\ next_id' = next_id
                 /\ issued' = issued]_vars

C18_Witness ==
    /\ last.op = "delete"
    /\ last.id = Some(2)
    /\ Len(tasks) = 3
    /\ tasks[1].id = Some(1) /\ tasks[2].id = Some(3) /\ tasks[3].id = Some(4)
    /\ next_id = 5

(***************************************************************************)
(* Properties of the all-tasks page over any sequence of its keys.         *)
(***************************************************************************)
\* C21: the selection is empty or the index of a task of the collection; with
\* an empty collection it is empty.
C21_SelectionInBounds ==
    /\ current_idx # None => Unwrap(current_idx) \in 0..(Len(tasks) - 1)
    /\ Len(tasks) = 0 => current_idx = None

\* The last of the tasks was selected and deleted, and none is left to select.
C21_Witness ==
    /\ last.op = "delete_selected"
    /\ last.sel = Some(2)
    /\ Len(tasks) = 2
    /\ tasks[1].complete /\ tasks[2].complete
    /\ show_hidden
    /\ current_idx = None

\* C23: with no task selected the keys x, d, Enter and e leave the collection
\* and the selection as they were and return.
C23_NoAbortUnselected ==
    [][(/\ last'.op \in {"toggle_selected", "delete_selected", "open_selected_link", "edit"}
        /\ current_idx = None)
          => /\ ~panicked'
             /\ tasks' = tasks
             /\ next_id' = next_id
             /\ current_idx' = None]_vars

\* C22: each toggle that completes the recurring task appends exactly one
\* task and each toggle that un-completes it appends none, whatever came
\* before; every successor it has spawned so far has the date, the name and
\* the recurrence of the first, is incomplete, and has an id of its own.
C22_OneSuccessorPerCompletion ==
    [][(last'.op = "toggle_selected" /\ last'.id = tasks[1].id) =>
          /\ ~tasks[1].complete => Len(tasks') = Len(tasks) + 1
          /\ tasks[1].complete => Len(tasks') = Len(tasks)
          /\ \A i \in 2..Len(tasks') :
                 /\ tasks'[i].date = tasks'[2].date
                 /\ tasks'[i].name = tasks'[1].name
                 /\ tasks'[i].repeats = tasks'[1].repeats
                 /\ ~tasks'[i].complete
                 /\ Later(tasks'[i].date, tasks'[1].date)
                 /\ \A j \in 1..Len(tasks') : tasks'[j].id = tasks'[i].id => j = i]_vars

\* Completed, un-completed and completed again: two successors on the same
\* date, 29 February, the day a monthly task of 31 January comes to.
C22_Witness ==
    /\ last.op = "toggle_selected"
    /\ last.id = Some(1)
    /\ Len(tasks) = 3
    /\ tasks[1].complete
    /\ tasks[1].repeats = Monthly
    /\ tasks[1].date.date = from_ymd(FirstYear, 1, 31)
    /\ tasks[2].date = tasks[3].date
    /\ tasks[2].id = Some(2) /\ tasks[3].id = Some(3)

====
